---- MODULE Spec2Model ----
(***************************************************************************)
(* Lexical index storage, lexical search, rank fusion and the retrieval    *)
(* orchestrators of audio2text-RAG.                                        *)
(*                                                                         *)
(*   Spec          the relational store: upsert_data, call after call      *)
(*   SpecSearch    upsert_data and the lexical searches, one action per    *)
(*                 call                                                    *)
(*   SpecLexical   index_retrieve on the file index, and the relational    *)
(*                 searches on a collection without documents              *)
(*   SpecConc      upsert_data and index_search statement by statement     *)
(*                 on the shared autocommit connection                     *)
(*   SpecFuse      reciprocal rank fusion of two ranked lists              *)
(*   SpecFusion    fuse_results by rrf, by dbsf and by unknown methods     *)
(*   SpecIngest    ingest_documents on the lexical index and the vector    *)
(*                 collection                                              *)
(*   SpecRetrieve  retrieve_documents (both orchestrators)                 *)
(***************************************************************************)
EXTENDS Integers, Sequences, FiniteSets, TLC

\* ------------------------------------------------------------------ bounds
MaxBatches == 2
MaxTopK == 2
MaxQueries == 2
MaxLen == 3

\* ------------------------------------------------------------ sample universe
Docs == {1, 2}
Stopwords == {"the"}
Texts == { <<"cat">>, <<"the", "dogs", "cat", "cat">>, <<"the">> }
QueryTexts == { <<"cat">>, <<"the">>, <<"cat", "cat", "dog">> }
Methods == {"tfidf", "okapi-bm25", "cosine"}

\* ------------------------------------------------------------------ helpers
Max(a, b) == IF a >= b THEN a ELSE b

Min(a, b) == IF a <= b THEN a ELSE b

Range(s) == { s[i] : i \in DOMAIN s }

Reverse(s) == [ i \in DOMAIN s |-> s[Len(s) + 1 - i] ]

RECURSIVE SumOver(_, _)
SumOver(f, S) ==
    IF S = {} THEN 0
    ELSE LET x == CHOOSE y \in S : TRUE IN f[x] + SumOver(f, S \ {x})

\* ---------------------------------------------------------------- tokenizer
stem(w) == IF w = "dogs" THEN "dog" ELSE IF w = "cats" THEN "cat" ELSE w

RECURSIVE tokenize(_)
tokenize(text) ==
    IF text = << >> THEN << >>
    ELSE IF Head(text) \in Stopwords THEN tokenize(Tail(text))
    ELSE <<stem(Head(text))>> \o tokenize(Tail(text))

\* Counter(tokens)[t]
Count(tokens, t) == Cardinality({ i \in DOMAIN tokens : tokens[i] = t })

\* Counter(tokens).keys(), in order of first occurrence
RECURSIVE CounterKeys(_)
CounterKeys(tokens) ==
    IF tokens = << >> THEN << >>
    ELSE LET rest == CounterKeys(SelectSeq(Tail(tokens), LAMBDA w : w # Head(tokens)))
         IN <<Head(tokens)>> \o rest

\* ------------------------------------------------------------ index builder
\* A batch is the node list of one ingestion: node id -> node text.
Batches == UNION { [D -> Texts] : D \in SUBSET Docs }

BatchTerms(batch) == UNION { Range(tokenize(batch[d])) : d \in DOMAIN batch }

\* term -> TermEntry(doc_freq, postings) of ONE batch, and the batch's doc_lens
build_inverted_index(batch) ==
    LET postings == [ t \in BatchTerms(batch) |->
                        LET ds == { d \in DOMAIN batch : Count(tokenize(batch[d]), t) > 0 }
                        IN [ d \in ds |-> Count(tokenize(batch[d]), t) ] ]
    IN [ postings_list |-> [ t \in DOMAIN postings |->
                               [ doc_freq |-> Cardinality(DOMAIN postings[t]),
                                 postings |-> postings[t] ] ],
         doc_lens |-> [ d \in DOMAIN batch |-> Len(tokenize(batch[d])) ] ]

\* ---------------------------------------------------------- relational store
\* db      the collection's tables: main (id -> text, doc_len), pl ((term, doc_id)
\*         -> freq), df (term -> doc_freq), and whether the tables exist
\* nbatch  number of upsert_data calls made
\* last    the last call: its name, arguments and outcome
\* prev    the tables as they were before the last call (the tables themselves
\*         once the caller has taken its outcome)
\* broken  an upsert_data call has raised after its first write
VARIABLES db, nbatch, last, prev, broken

\* req     the request retrieve_documents is serving, NoReq between calls
\* env     what the backends hold for each query, which backend call raises and at
\*         which query, how the reranker orders, and what the backends were asked
\* resp    the RetrievalResponse (raised: the exception that leaves the handler)
\* logged  the exception the handler logged
VARIABLES req, env, resp, logged

\* an upsert_data call and an index_search call in flight on the shared connection
VARIABLES wpc, wbatch, wpre, rpc, rquery, rview, snaps

\* lexical  the lexical index stored on disk for the collection, NoIndex before the first
\* qdrant   the collection of the vector store: whether it exists, and its points
VARIABLES lexical, qdrant

storeVars == <<db, nbatch, last, prev, broken>>

retrVars == <<req, env, resp, logged>>

concVars == <<wpc, wbatch, wpre, rpc, rquery, rview, snaps>>

ingestVars == <<lexical, qdrant>>

EmptyDb == [ created |-> FALSE, main |-> << >>, pl |-> << >>, df |-> << >> ]

ensure_collection_exists(st) == [ st EXCEPT !.created = TRUE ]

\* executemany(insert_main_table): ON CONFLICT (id) leaves doc_len as it was
insert_main_table(st, batch, doc_lens) ==
    [ st EXCEPT !.main =
        [ d \in DOMAIN st.main \cup DOMAIN batch |->
            IF d \in DOMAIN batch
            THEN IF d \in DOMAIN st.main
                 THEN [ st.main[d] EXCEPT !.text = batch[d] ]
                 ELSE [ text |-> batch[d], doc_len |-> doc_lens[d] ]
            ELSE st.main[d] ] ]

PlRows(postings_list) ==
    { r \in (DOMAIN postings_list) \X Docs : r[2] \in DOMAIN postings_list[r[1]].postings }

\* executemany(insert_pl_table): ON CONFLICT (term, doc_id) SET freq = EXCLUDED.freq
insert_pl_table(st, postings_list) ==
    [ st EXCEPT !.pl =
        [ r \in DOMAIN st.pl \cup PlRows(postings_list) |->
            IF r \in PlRows(postings_list)
            THEN postings_list[r[1]].postings[r[2]]
            ELSE st.pl[r] ] ]

\* a merge that adds the batch's count to the stored one
InsertDfAdd(st, postings_list) ==
    [ st EXCEPT !.df =
        [ t \in DOMAIN st.df \cup DOMAIN postings_list |->
            IF t \in DOMAIN postings_list
            THEN (IF t \in DOMAIN st.df THEN st.df[t] ELSE 0) + postings_list[t].doc_freq
            ELSE st.df[t] ] ]

\* executemany(insert_df_table): ON CONFLICT (term) SET doc_freq = EXCLUDED.doc_freq
insert_df_table(st, postings_list) ==
    [ st EXCEPT !.df =
        [ t \in DOMAIN st.df \cup DOMAIN postings_list |->
            IF t \in DOMAIN postings_list
            THEN postings_list[t].doc_freq
            ELSE st.df[t] ] ]

EmbCases == {"ok", "dense_mismatch", "sparse_mismatch", "sparse_null"}

\* an upsert_data that makes sure of the tables before it looks at the lists it
\* was given
UpsertDataEnsuresFirst(st, batch, emb, failAt) ==
    LET ii == build_inverted_index(batch)
        s0 == ensure_collection_exists(st)
        s1 == insert_main_table(s0, batch, ii.doc_lens)
        s2 == insert_pl_table(s1, ii.postings_list)
        s3 == insert_df_table(s2, ii.postings_list)
    IN IF DOMAIN batch = {} \/ emb \in {"dense_mismatch", "sparse_mismatch"}
       THEN [ db |-> s0, err |-> "ValueError" ]
       ELSE IF emb = "sparse_null" \/ failAt = 1 THEN [ db |-> s0, err |-> "DatabaseError" ]
       ELSE IF failAt = 2 THEN [ db |-> s1, err |-> "DatabaseError" ]
       ELSE IF failAt = 3 THEN [ db |-> s2, err |-> "DatabaseError" ]
       ELSE [ db |-> s3, err |-> "none" ]

\* upsert_data: the store it leaves and the exception it raises. failAt = n > 0 is
\* a database error raised by the n-th executemany; the connection is in autocommit
\* mode, so what the earlier statements wrote stays.
upsert_data(st, batch, emb, failAt) ==
    IF DOMAIN batch = {} THEN [ db |-> st, err |-> "ValueError" ]
    ELSE IF emb \in {"dense_mismatch", "sparse_mismatch"}
    THEN [ db |-> st, err |-> "ValueError" ]
    ELSE LET ii == build_inverted_index(batch)
             s0 == ensure_collection_exists(st)
             s1 == insert_main_table(s0, batch, ii.doc_lens)
             s2 == insert_pl_table(s1, ii.postings_list)
             s3 == insert_df_table(s2, ii.postings_list)
         IN IF emb = "sparse_null" \/ failAt = 1 THEN [ db |-> s0, err |-> "DatabaseError" ]
            ELSE IF failAt = 2 THEN [ db |-> s1, err |-> "DatabaseError" ]
            ELSE IF failAt = 3 THEN [ db |-> s2, err |-> "DatabaseError" ]
            ELSE [ db |-> s3, err |-> "none" ]

\* ------------------------------------------------------------------ scoring
\* 1000 * ln(n), n = 1..12
LnMilli == <<0, 693, 1099, 1386, 1609, 1792, 1946, 2079, 2197, 2303, 2398, 2485>>

Ln(n) == LnMilli[Min(Max(n, 1), Len(LnMilli))]

\* ln((N - df + 0.5) / (df + 0.5) + 1) = ln((2N + 2) / (2df + 1)), in thousandths
calc_idf(df, N) == Ln(2 * N + 2) - Ln(2 * df + 1)

calc_tfidf(tf, idf) == tf * idf

\* idf * tf * (k1 + 1) / (tf + k1 * (1 - b + b * dl / avg_dl)) with k1 = 3/2, b = 3/4
\* and avg_dl = sum / n; the caller never passes sum = 0
calc_okapi_bm25(tf, idf, dl, sum, n) ==
    (idf * 20 * tf * sum) \div (8 * tf * sum + 3 * sum + 9 * dl * n)

\* ------------------------------------------------------------- ranked lists
Front(s) == SubSeq(s, 1, Len(s) - 1)

Take(s, k) == SubSeq(s, 1, Min(k, Len(s)))

\* list.sort(key = score, reverse = True): stable, equal scores keep their order
InsertDesc(sorted, x) ==
    LET k == Cardinality({ i \in DOMAIN sorted : sorted[i].score >= x.score })
    IN SubSeq(sorted, 1, k) \o <<x>> \o SubSeq(sorted, k + 1, Len(sorted))

RECURSIVE SortDesc(_)
SortDesc(s) == IF s = << >> THEN << >> ELSE InsertDesc(SortDesc(Front(s)), s[Len(s)])

Ids(results) == [ i \in DOMAIN results |-> results[i].id ]

\* the orders in which a SELECT without ORDER BY may return the documents
RowOrders == { o \in [1..Cardinality(Docs) -> Docs] : Range(o) = Docs }

\* ------------------------------------------------------------ lexical search
\* SELECT COUNT(*), AVG(doc_len): N and avg_dl = sum / N
CorpusStats(st) ==
    [ N |-> Cardinality(DOMAIN st.main),
      sum |-> SumOver([ d \in DOMAIN st.main |-> st.main[d].doc_len ], DOMAIN st.main) ]

Scored(method, tf, idf, dl, stats) ==
    IF method = "tfidf" THEN calc_tfidf(tf, idf)
    ELSE calc_okapi_bm25(tf, idf, dl, stats.sum, stats.N)

\* the first error among those of the queries, in query order
RECURSIVE FirstErr(_)
FirstErr(rs) ==
    IF rs = << >> THEN "none"
    ELSE IF Head(rs).err # "none" THEN Head(rs).err
    ELSE FirstErr(Tail(rs))

Response(rs) ==
    IF FirstErr(rs) # "none" THEN [ err |-> FirstErr(rs), lists |-> << >> ]
    ELSE [ err |-> "none", lists |-> [ i \in DOMAIN rs |-> rs[i].list ] ]

\* what one iteration of index_search's loop has read: df_map, the rows of the
\* postings query (joined with doc_len) and the payload rows of the top documents
NoView(stats) == [ stats |-> stats, df_map |-> << >>, rows |-> {}, payloads |-> << >> ]

\* SELECT term, doc_freq FROM df WHERE term IN (uniq_terms)
ReadDf(st, uniq_terms) == [ t \in uniq_terms \cap DOMAIN st.df |-> st.df[t] ]

\* SELECT p.term, p.doc_id, p.freq, m.doc_len FROM pl p JOIN main m ON m.id = p.doc_id
ReadPostings(st, uniq_terms) ==
    { [ term |-> r[1], doc_id |-> r[2], freq |-> st.pl[r], doc_len |-> st.main[r[2]].doc_len ] :
        r \in { x \in DOMAIN st.pl : x[1] \in uniq_terms /\ x[2] \in DOMAIN st.main } }

\* SELECT id, text, ... FROM main WHERE id IN (top_ids)
ReadPayloads(st, top_ids) == [ d \in top_ids \cap DOMAIN st.main |-> st.main[d].text ]

\* the outcome of one iteration, from what it has read
Outcome(view, q, top_k, method, ord) ==
    LET used == { r \in view.rows : r.term \in DOMAIN view.df_map }
        hit == { r.doc_id : r \in used }
        score(d) ==
            LET rs == { r \in used : r.doc_id = d }
            IN SumOver([ r \in rs |-> Scored(method, r.freq,
                                             calc_idf(view.df_map[r.term], view.stats.N),
                                             r.doc_len, view.stats) ], rs)
        order == SelectSeq(ord, LAMBDA d : d \in hit)
        doc_scores == [ i \in DOMAIN order |-> [ id |-> order[i], score |-> score(order[i]) ] ]
    IN IF tokenize(q) = << >> THEN [ err |-> "none", list |-> << >> ]
       ELSE IF DOMAIN view.df_map = {} THEN [ err |-> "none", list |-> << >> ]
       ELSE IF method \notin {"tfidf", "okapi-bm25"} THEN [ err |-> "ValueError", list |-> << >> ]
       ELSE IF method = "okapi-bm25" /\ used # {} /\ view.stats.sum = 0
            THEN [ err |-> "ZeroDivisionError", list |-> << >> ]
       ELSE [ err |-> "none", list |-> Take(SortDesc(doc_scores), top_k) ]

\* the next statement of the iteration, run on the tables st
ReadStep(st, pc, view, q, top_k, method, ord) ==
    IF pc = "df"
    THEN LET v == [ view EXCEPT !.df_map = ReadDf(st, Range(tokenize(q))) ]
         IN [ view |-> v, pc |-> IF DOMAIN v.df_map = {} THEN "done" ELSE "postings" ]
    ELSE IF pc = "postings"
    THEN LET v == [ view EXCEPT !.rows = ReadPostings(st, Range(tokenize(q))) ]
             out == Outcome(v, q, top_k, method, ord)
         IN [ view |-> v,
              pc |-> IF out.err # "none" \/ out.list = << >> THEN "done" ELSE "payloads" ]
    ELSE LET top_ids == Range(Ids(Outcome(view, q, top_k, method, ord).list))
         IN [ view |-> [ view EXCEPT !.payloads = ReadPayloads(st, top_ids) ], pc |-> "done" ]

FirstStep(q) == IF tokenize(q) = << >> THEN "done" ELSE "df"

RECURSIVE ReadAll(_, _, _, _, _, _, _)
ReadAll(st, pc, view, q, top_k, method, ord) ==
    IF pc = "done" THEN view
    ELSE LET n == ReadStep(st, pc, view, q, top_k, method, ord)
         IN ReadAll(st, n.pc, n.view, q, top_k, method, ord)

\* one iteration of index_search's loop over query_texts, all statements on st
IndexSearchQuery(st, stats, q, top_k, method, ord) ==
    Outcome(ReadAll(st, FirstStep(q), NoView(stats), q, top_k, method, ord),
            q, top_k, method, ord)

\* an index_search that takes a collection without documents for a missing index
IndexSearchEmptyRaises(st, query_texts, top_k, method, ord) ==
    LET stats == CorpusStats(st) IN
    IF stats.N = 0 THEN [ err |-> "IndexNotFoundError", lists |-> << >> ]
    ELSE Response([ i \in DOMAIN query_texts |->
                      IndexSearchQuery(st, stats, query_texts[i], top_k, method, ord) ])

index_search(st, query_texts, top_k, method, ord) ==
    LET stats == CorpusStats(st) IN
    IF stats.N = 0 THEN [ err |-> "none", lists |-> [ i \in DOMAIN query_texts |-> << >> ] ]
    ELSE Response([ i \in DOMAIN query_texts |->
                      IndexSearchQuery(st, stats, query_texts[i], top_k, method, ord) ])

\* utils/_tokenizer.py: punctuation and stopwords removed, no stemming
tokenize_legacy(text) == SelectSeq(text, LAMBDA w : w \notin Stopwords)

\* the (term, doc_id) pairs sparse_search scores for one query, in loop order
RECURSIVE Visits(_, _, _)
Visits(st, terms, ord) ==
    IF terms = << >> THEN << >>
    ELSE LET t == Head(terms)
             postings == SelectSeq(ord, LAMBDA d : <<t, d>> \in DOMAIN st.pl)
             df == IF t \in DOMAIN st.df THEN st.df[t] ELSE 0
             here == IF postings = << >> \/ df = 0 THEN << >>
                     ELSE [ i \in DOMAIN postings |-> <<t, postings[i]>> ]
         IN here \o Visits(st, Tail(terms), ord)

\* the documents a query loads, each given a fresh doc_scores entry
Loaded(visits, dl_cache) ==
    SelectSeq(CounterKeys([ i \in DOMAIN visits |-> visits[i][2] ]),
              LAMBDA d : d \notin dl_cache)

\* one iteration of sparse_search's loop over tokenized_texts; dl_cache holds the
\* documents loaded by the earlier queries of the batch
SparseSearchQuery(st, stats, q, top_k, method, ord, dl_cache) ==
    LET tokens == tokenize_legacy(q)
        visits == Visits(st, CounterKeys(tokens), ord)
        fresh == Loaded(visits, dl_cache)
        errAt(v) ==
            IF method \notin {"tfidf", "okapi-bm25"} THEN "ValueError"
            ELSE IF v[2] \in dl_cache THEN "KeyError"
            ELSE IF method = "okapi-bm25" /\ stats.sum = 0 THEN "ZeroDivisionError"
            ELSE "none"
        score(d) ==
            LET vs == { i \in DOMAIN visits : visits[i][2] = d }
            IN SumOver([ i \in vs |->
                           Count(tokens, visits[i][1]) *
                           Scored(method, st.pl[visits[i]],
                                  calc_idf(st.df[visits[i][1]], stats.N),
                                  st.main[d].doc_len, stats) ], vs)
        doc_scores == [ i \in DOMAIN fresh |-> [ id |-> fresh[i], score |-> score(fresh[i]) ] ]
        err == FirstErr([ i \in DOMAIN visits |-> [ err |-> errAt(visits[i]) ] ])
    IN [ err |-> err,
         list |-> IF err = "none" THEN Take(SortDesc(doc_scores), top_k) ELSE << >>,
         dl_cache |-> dl_cache \cup Range(fresh) ]

RECURSIVE SparseSearchLoop(_, _, _, _, _, _, _)
SparseSearchLoop(st, stats, qs, top_k, method, ord, dl_cache) ==
    IF qs = << >> THEN << >>
    ELSE LET r == SparseSearchQuery(st, stats, Head(qs), top_k, method, ord, dl_cache)
         IN <<r>> \o SparseSearchLoop(st, stats, Tail(qs), top_k, method, ord, r.dl_cache)

\* repo/postgres/_retrieve.py
sparse_search(st, query_texts, top_k, scoring_method, ord) ==
    LET stats == CorpusStats(st) IN
    IF stats.N = 0 THEN [ err |-> "none", lists |-> [ i \in DOMAIN query_texts |-> << >> ] ]
    ELSE Response(SparseSearchLoop(st, stats, query_texts, top_k, scoring_method, ord, {}))

\* ---------------------------------------------------------- file-based index
\* A corpus is the node list of one ingestion, in node order: uuid and text.
\* build_inverted_index takes an empty node list too (doc_count 0, avg_doc_len
\* None); ingest_documents itself refuses a request that yields no node.
LocalCorpora ==
    UNION { { c \in [1..n -> [ uuid : Docs, text : Texts ]] :
                \A i, j \in 1..n : c[i].uuid = c[j].uuid => i = j } :
            n \in 0..Cardinality(Docs) }

RECURSIVE Flatten(_)
Flatten(ss) == IF ss = << >> THEN << >> ELSE Head(ss) \o Flatten(Tail(ss))

\* a build_inverted_index that numbers the tokens from the last one seen to the first
IndexedDocsLastFirst(corpus) ==
    LET tokenized == [ i \in DOMAIN corpus |-> tokenize(corpus[i].text) ]
        terms == Reverse(CounterKeys(Flatten(tokenized)))
        vocab == [ t \in Range(terms) |-> (CHOOSE i \in DOMAIN terms : terms[i] = t) - 1 ]
        positions == [ i \in DOMAIN corpus |-> i ]
        postings == [ idx \in 0..(Len(terms) - 1) |->
                        LET ds == SelectSeq(positions,
                                            LAMBDA d : Count(tokenized[d], terms[idx + 1]) > 0)
                        IN [ j \in DOMAIN ds |-> <<ds[j], Count(tokenized[ds[j]], terms[idx + 1])>> ] ]
    IN [ vocab |-> vocab,
         postings |-> postings,
         docs |-> [ i \in DOMAIN corpus |-> corpus[i].text ],
         meta |-> [ doc_count |-> Len(corpus),
                    doc_freqs |-> [ idx \in DOMAIN postings |-> Len(postings[idx]) ],
                    doc_lens |-> [ i \in DOMAIN corpus |-> Len(tokenized[i]) ],
                    avg_doc_len |-> [ sum |-> Len(Flatten(tokenized)), n |-> Len(corpus) ],
                    uuids |-> [ i \in DOMAIN corpus |-> corpus[i].uuid ] ] ]

\* build_inverted_index as the file variant stores it: vocab (token -> idx, in
\* order of first occurrence), postings (idx -> [doc_id, tf] in document order)
\* and meta. Documents are numbered by position, from 1 here and from 0 in the code.
IndexedDocs(corpus) ==
    LET tokenized == [ i \in DOMAIN corpus |-> tokenize(corpus[i].text) ]
        terms == CounterKeys(Flatten(tokenized))
        vocab == [ t \in Range(terms) |-> (CHOOSE i \in DOMAIN terms : terms[i] = t) - 1 ]
        positions == [ i \in DOMAIN corpus |-> i ]
        postings == [ idx \in 0..(Len(terms) - 1) |->
                        LET ds == SelectSeq(positions,
                                            LAMBDA d : Count(tokenized[d], terms[idx + 1]) > 0)
                        IN [ j \in DOMAIN ds |-> <<ds[j], Count(tokenized[ds[j]], terms[idx + 1])>> ] ]
    IN [ vocab |-> vocab,
         postings |-> postings,
         docs |-> [ i \in DOMAIN corpus |-> corpus[i].text ],
         meta |-> [ doc_count |-> Len(corpus),
                    doc_freqs |-> [ idx \in DOMAIN postings |-> Len(postings[idx]) ],
                    doc_lens |-> [ i \in DOMAIN corpus |-> Len(tokenized[i]) ],
                    avg_doc_len |-> [ sum |-> Len(Flatten(tokenized)), n |-> Len(corpus) ],
                    uuids |-> [ i \in DOMAIN corpus |-> corpus[i].uuid ] ] ]

\* no vocab and no postings file on disk
NoIndex == [ meta |-> "missing" ]

\* the (token, doc_id, tf) triples index_retrieve scores for one query, in loop order
RECURSIVE LocalVisits(_, _)
LocalVisits(index, keys) ==
    IF keys = << >> THEN << >>
    ELSE LET t == Head(keys)
             plist == IF t \in DOMAIN index.vocab THEN index.postings[index.vocab[t]] ELSE << >>
         IN [ i \in DOMAIN plist |-> <<t, plist[i][1], plist[i][2]>> ]
            \o LocalVisits(index, Tail(keys))

\* a scores dict that holds every document of the index, at 0 when nothing matched
LocalScoresAllDocs(index, tokens, method) ==
    LET visits == LocalVisits(index, CounterKeys(tokens))
        hit(d) == Cardinality({ i \in DOMAIN visits : visits[i][2] = d })
    IN [ d \in DOMAIN index.meta.uuids |-> [ id |-> d, score |-> hit(d) ] ]

\* the scores dict of one query, in insertion order
LocalScores(index, tokens, method) ==
    LET visits == LocalVisits(index, CounterKeys(tokens))
        meta == index.meta
        stats == [ N |-> meta.doc_count, sum |-> meta.avg_doc_len.sum ]
        order == CounterKeys([ i \in DOMAIN visits |-> visits[i][2] ])
        score(d) ==
            LET vs == { i \in DOMAIN visits : visits[i][2] = d }
            IN SumOver([ i \in vs |->
                           Count(tokens, visits[i][1]) *
                           Scored(method, visits[i][3],
                                  calc_idf(meta.doc_freqs[index.vocab[visits[i][1]]],
                                           meta.doc_count),
                                  meta.doc_lens[d], stats) ], vs)
    IN [ i \in DOMAIN order |-> [ id |-> order[i], score |-> score(order[i]) ] ]

\* one iteration of index_retrieve's loop over tokenized_queries
IndexRetrieveQuery(index, q, top_k, method) ==
    LET tokens == tokenize(q)
        visits == LocalVisits(index, CounterKeys(tokens))
        err == IF visits = << >> THEN "none"
               ELSE IF method \notin {"tfidf", "okapi-bm25"} THEN "ValueError"
               ELSE IF method = "okapi-bm25" /\ index.meta.avg_doc_len.sum = 0
                    THEN "ZeroDivisionError"
               ELSE "none"
        sorted_docs == Take(SortDesc(LocalScores(index, tokens, method)), top_k)
    IN [ err |-> err,
         list |-> IF err # "none" THEN << >>
                  ELSE [ i \in DOMAIN sorted_docs |->
                           [ id |-> index.meta.uuids[sorted_docs[i].id],
                             score |-> sorted_docs[i].score ] ] ]

\* repo/local/retrieve.py: _load_index, then the loop over the queries
index_retrieve(index, query_texts, top_k, method) ==
    IF index = NoIndex THEN [ err |-> "FileNotFoundError", lists |-> << >> ]
    ELSE Response([ i \in DOMAIN query_texts |->
                      IndexRetrieveQuery(index, query_texts[i], top_k, method) ])

\* --------------------------------------------------------------- rank fusion
RRF_K == 2

\* fused scores are kept in units of 1 / RrfUnit, a multiple of every k + rank
RrfUnit == 2 * 2 * 2 * 3 * 3 * 5 * 7 * 11

\* an all_docs that keeps the document of the last occurrence of each id
AllDocsLast(results1, results2) ==
    LET scan == results1 \o results2
    IN [ id \in Range(Ids(scan)) |->
           scan[CHOOSE i \in DOMAIN scan :
                    scan[i].id = id /\ \A j \in (i + 1)..Len(scan) : scan[j].id # id] ]

\* all_docs: each id with the document of its first occurrence, results1 scanned
\* before results2
all_docs(results1, results2) ==
    LET scan == results1 \o results2
    IN [ id \in Range(Ids(scan)) |->
           scan[CHOOSE i \in DOMAIN scan :
                    scan[i].id = id /\ \A j \in 1..(i - 1) : scan[j].id # id] ]

\* ranks counted from 1
RrfPartOneBased(results, id, k) ==
    LET at == { i \in DOMAIN results : results[i].id = id }
    IN SumOver([ i \in at |-> RrfUnit \div (k + i) ], at)

\* sum of 1 / (k + rank) over the positions (rank + 1) at which id occurs
RrfPart(results, id, k) ==
    LET at == { i \in DOMAIN results : results[i].id = id }
    IN SumOver([ i \in at |-> RrfUnit \div (k + i - 1) ], at)

\* a fusion that keeps the better of a document's two contributions
FuseRrfMax(results1, results2, k) ==
    LET order == CounterKeys(Ids(results1) \o Ids(results2))
        fused_results == [ i \in DOMAIN order |->
                             [ id |-> order[i],
                               score |-> Max(RrfPart(results1, order[i], k),
                                             RrfPart(results2, order[i], k)),
                               payload |-> all_docs(results1, results2)[order[i]].payload ] ]
    IN SortDesc(fused_results)

\* a fusion that scans results2 before results1
FuseRrfSecondFirst(results1, results2, k) ==
    LET order == CounterKeys(Ids(results2) \o Ids(results1))
        fused_results == [ i \in DOMAIN order |->
                             [ id |-> order[i],
                               score |-> RrfPart(results1, order[i], k)
                                         + RrfPart(results2, order[i], k),
                               payload |-> all_docs(results2, results1)[order[i]].payload ] ]
    IN SortDesc(fused_results)

\* a fusion that hands back the other list as it is when one list is empty
FuseRrfPassThrough(results1, results2, k) ==
    IF results1 = << >> THEN results2
    ELSE IF results2 = << >> THEN results1
    ELSE FuseRrfSecondFirst(results2, results1, k)

_fuse_rrf(results1, results2, k) ==
    LET order == CounterKeys(Ids(results1) \o Ids(results2))
        fused_results == [ i \in DOMAIN order |->
                             [ id |-> order[i],
                               score |-> RrfPart(results1, order[i], k)
                                         + RrfPart(results2, order[i], k),
                               payload |-> all_docs(results1, results2)[order[i]].payload ] ]
    IN SortDesc(fused_results)

\* DBSF scores are kept in thousandths
DbsfUnit == 10 * 10 * 10

\* the float nan, kept apart from every score
NaN == 0 - 1

\* float <: false as soon as one side is nan
IsLt(a, b) == a # NaN /\ b # NaN /\ a < b

\* float +: nan as soon as one side is nan
FloatAdd(a, b) == IF a = NaN \/ b = NaN THEN NaN ELSE a + b

Isqrt(x) == CHOOSE r \in 0..DbsfUnit : r * r <= x /\ x < (r + 1) * (r + 1)

\* count_run: the last position of the run that starts the list; a descending run
\* goes on while the next key is less, an ascending one while it is not
RECURSIVE RunEnd(_, _, _)
RunEnd(s, i, descending) ==
    IF i = Len(s) THEN i
    ELSE IF IsLt(s[i + 1].score, s[i].score) = descending THEN RunEnd(s, i + 1, descending)
    ELSE i

\* binarysort's search of the slot of pivot among the first r entries, l and r
\* counted from 0
RECURSIVE BinaryPos(_, _, _, _)
BinaryPos(s, pivot, l, r) ==
    IF l >= r THEN l
    ELSE LET p == l + ((r - l) \div 2)
         IN IF IsLt(pivot.score, s[p + 1].score) THEN BinaryPos(s, pivot, l, p)
            ELSE BinaryPos(s, pivot, p + 1, r)

\* binarysort: the first start entries are sorted, the others are inserted in turn
RECURSIVE binarysort(_, _)
binarysort(s, start) ==
    IF start >= Len(s) THEN s
    ELSE LET pivot == s[start + 1]
             l == BinaryPos(s, pivot, 0, start)
         IN binarysort(SubSeq(s, 1, l) \o <<pivot>> \o SubSeq(s, l + 1, start)
                           \o SubSeq(s, start + 2, Len(s)),
                       start + 1)

\* list.sort(key = score, reverse = True) as CPython runs it on a short list: the
\* list is reversed, its leading run is found (and reversed when descending), the
\* rest is inserted by binary search with < alone, and the list is reversed again.
\* With no nan among the keys this is SortDesc; a nan key compares false both ways
\* and the outcome then depends on the order of the input.
list_sort_reverse(s) ==
    LET r == Reverse(s)
        descending == Len(r) > 1 /\ IsLt(r[2].score, r[1].score)
        n == IF Len(r) <= 1 THEN Len(r) ELSE RunEnd(r, 2, descending)
        run == IF descending THEN Reverse(SubSeq(r, 1, n)) \o SubSeq(r, n + 1, Len(r)) ELSE r
    IN Reverse(binarysort(run, n))

\* _normalize_and_fuse: the normalized score of every position of results. With
\* dev = n (score - mean) and sq = the sum of dev^2, np.std(ddof = 1) is
\* sqrt(sq / (n^2 (n - 1))): nan (0 / 0) for one score, 0 for equal scores, and
\* otherwise (score - lb) / (ub - lb) = 1/2 + dev sqrt(n - 1) / (6 sqrt(sq))
normalized_scores(results) ==
    LET n == Len(results)
        sum == SumOver([ i \in 1..n |-> results[i].score ], 1..n)
        dev == [ i \in 1..n |-> n * results[i].score - sum ]
        sq == SumOver([ i \in 1..n |-> dev[i] * dev[i] ], 1..n)
    IN [ i \in 1..n |->
           IF n = 1 THEN NaN
           ELSE IF sq = 0 THEN DbsfUnit \div 2
           ELSE LET r == Isqrt((dev[i] * dev[i] * (n - 1) * DbsfUnit * DbsfUnit) \div (36 * sq))
                IN IF dev[i] >= 0 THEN DbsfUnit \div 2 + r ELSE DbsfUnit \div 2 - r ]

\* what results adds to fused_scores[id]
DbsfPart(results, id) ==
    LET at == { i \in DOMAIN results : results[i].id = id }
    IN IF at = {} THEN 0
       ELSE IF Len(results) = 1 THEN NaN
       ELSE SumOver(normalized_scores(results), at)

_fuse_dbsf(results1, results2) ==
    LET order == CounterKeys(Ids(results1) \o Ids(results2))
        fused_results == [ i \in DOMAIN order |->
                             [ id |-> order[i],
                               score |-> FloatAdd(DbsfPart(results1, order[i]),
                                                  DbsfPart(results2, order[i])),
                               payload |-> all_docs(results1, results2)[order[i]].payload ] ]
    IN list_sort_reverse(fused_results)

\* a fuse_results that refuses two empty lists
FuseResultsEmptyRaises(results1, results2, method) ==
    IF method \notin {"rrf", "dbsf"}
    THEN [ err |-> "ValueError", returned |-> FALSE, fused |-> << >> ]
    ELSE IF results1 = << >> /\ results2 = << >>
    THEN [ err |-> "EmptyInputError", returned |-> FALSE, fused |-> << >> ]
    ELSE [ err |-> "none", returned |-> TRUE,
           fused |-> IF method = "rrf" THEN _fuse_rrf(results1, results2, RRF_K)
                     ELSE _fuse_dbsf(results1, results2) ]

\* a fuse_results that takes every other method for rrf
FuseResultsFallsBack(results1, results2, method) ==
    [ err |-> "none", returned |-> TRUE,
      fused |-> IF method = "dbsf" THEN _fuse_dbsf(results1, results2)
                ELSE _fuse_rrf(results1, results2, RRF_K) ]

\* fuse_results: err is the exception raised, fused the list returned when none is
fuse_results(results1, results2, method) ==
    IF method = "rrf"
    THEN [ err |-> "none", returned |-> TRUE, fused |-> _fuse_rrf(results1, results2, RRF_K) ]
    ELSE IF method = "dbsf"
    THEN [ err |-> "none", returned |-> TRUE, fused |-> _fuse_dbsf(results1, results2) ]
    ELSE [ err |-> "ValueError", returned |-> FALSE, fused |-> << >> ]

\* config.FUSION_METHOD, the method of a call that names none
FUSION_METHOD == "dbsf"

\* ranked lists as a backend returns them: distinct ids, scores descending
FuseIds == 1..MaxLen

RrfKs == 1..3

FuseLists ==
    UNION { { [ i \in 1..n |-> [ id |-> ids[i], score |-> n + 1 - i, payload |-> ids[i] ] ] :
                ids \in { f \in [1..n -> FuseIds] : \A i, j \in 1..n : f[i] = f[j] => i = j } } :
            n \in 0..MaxLen }

FusionMethods == {"rrf", "dbsf", "RRF", "max"}

\* the scores of a ranked list of n documents: they do not rise
ScoreRuns(n) == { sc \in [1..n -> 1..2] : \A i \in 1..(n - 1) : sc[i] >= sc[i + 1] }

\* ranked lists as a caller may pass them as list tag (1 or 2): an id may occur
\* twice, scores may be equal, and every document carries a payload of its own
RankedLists(tag) ==
    UNION { { [ i \in 1..n |-> [ id |-> ids[i], score |-> sc[i], payload |-> 10 * tag + i ] ] :
                ids \in [1..n -> Docs], sc \in ScoreRuns(n) } :
            n \in 0..MaxLen }

\* ---------------------------------------------------------------- ingestion
\* the vector store's collection: points holds the text stored under each uuid
NoCollection == [ created |-> FALSE, points |-> << >> ]

\* ensure_collection_exists of repo/qdrant
qdrant_ensure_collection_exists(q) == [ q EXCEPT !.created = TRUE ]

QdrantEmbCases == {"ok", "dense_mismatch", "sparse_mismatch"}

IngestFailures ==
    {"none", "dense_encode", "sparse_encode", "store_index", "create_collection", "upsert"}

\* upsert_data of repo/qdrant: the three checks, then the collection is made sure
\* of, then one client.upsert of all points. with_sparse tells whether
\* sparse_embeddings is a list or None
qdrant_upsert_data(q, nodes, with_sparse, emb, fail) ==
    IF nodes = << >> THEN [ q |-> q, err |-> "ValueError" ]
    ELSE IF emb = "dense_mismatch" THEN [ q |-> q, err |-> "ValueError" ]
    ELSE IF with_sparse /\ emb = "sparse_mismatch" THEN [ q |-> q, err |-> "ValueError" ]
    ELSE LET q0 == qdrant_ensure_collection_exists(q)
             q1 == [ q0 EXCEPT !.points =
                       [ u \in DOMAIN q0.points \cup { nodes[i].uuid : i \in DOMAIN nodes } |->
                           IF \E i \in DOMAIN nodes : nodes[i].uuid = u
                           THEN nodes[CHOOSE i \in DOMAIN nodes : nodes[i].uuid = u].text
                           ELSE q0.points[u] ] ]
         IN IF fail = "create_collection" THEN [ q |-> q, err |-> "QdrantError" ]
            ELSE IF fail = "upsert" THEN [ q |-> q0, err |-> "QdrantError" ]
            ELSE [ q |-> q1, err |-> "none" ]

\* store_index: the index kept for the collection after indexed_docs is merged
\* into it. The terms already stored keep their ids, the new terms of
\* indexed_docs.vocab follow in the order of their ids there, and every document
\* replaces the one stored under its uuid.
store_index(stored, indexed_docs) ==
    LET old == IF stored = NoIndex THEN << >> ELSE stored.vocab
        texts == IF stored = NoIndex THEN << >> ELSE stored.texts
        fresh == DOMAIN indexed_docs.vocab \ DOMAIN old
        uuids == indexed_docs.meta.uuids
    IN [ meta |-> "stored",
         vocab |-> [ t \in DOMAIN old \cup fresh |->
                       IF t \in DOMAIN old THEN old[t]
                       ELSE Cardinality(DOMAIN old)
                            + Cardinality({ u \in fresh :
                                              indexed_docs.vocab[u] < indexed_docs.vocab[t] }) ],
         texts |-> [ u \in DOMAIN texts \cup Range(uuids) |->
                       IF u \in Range(uuids)
                       THEN indexed_docs.docs[CHOOSE i \in DOMAIN uuids : uuids[i] = u]
                       ELSE texts[u] ] ]

\* ingest_documents: the response status and the two stores as the call leaves
\* them. fail names the step that raises; every exception ends in the 500.
ingest_documents(lex, q, nodes, sparse_process_method, emb, fail) ==
    IF nodes = << >> \/ fail = "dense_encode"
    THEN [ status |-> 500, lexical |-> lex, qdrant |-> q ]
    ELSE IF sparse_process_method = "sparse_embedding"
    THEN IF fail = "sparse_encode" THEN [ status |-> 500, lexical |-> lex, qdrant |-> q ]
         ELSE LET out == qdrant_upsert_data(q, nodes, TRUE, emb, fail)
              IN [ status |-> IF out.err = "none" THEN 201 ELSE 500,
                   lexical |-> lex, qdrant |-> out.q ]
    ELSE IF fail = "store_index" THEN [ status |-> 500, lexical |-> lex, qdrant |-> q ]
    ELSE LET stored == store_index(lex, IndexedDocs(nodes))
             out == qdrant_upsert_data(q, nodes, FALSE, emb, fail)
         IN [ status |-> IF out.err = "none" THEN 201 ELSE 500,
              lexical |-> stored, qdrant |-> out.q ]

\* ------------------------------------------------------------- orchestrators
TopKs == {1, 3, 5}
\* overfetch_mul, in tenths
Muls == {10, 13, 20}

\* int(top_k * overfetch_mul)
Trunc(top_k, mul) == (top_k * mul) \div 10

\* round(top_k * overfetch_mul), halves to the even neighbour
Round(top_k, mul) ==
    LET f == (top_k * mul) \div 10
        r == (top_k * mul) % 10
    IN IF r > 5 \/ (r = 5 /\ f % 2 = 1) THEN f + 1 ELSE f

OverfetchRounded(top_k, mul) == Max(top_k, Round(top_k, mul))

\* repo/postgres hybrid_search: max(top_k, int(top_k * overfetch_mul))
overfetch_amount(top_k, mul) == Max(top_k, Trunc(top_k, mul))

\* services/public/retrieve.py and repo/qdrant hybrid_search: int(top_k * overfetch_mul)
overfetch_amount_qdrant(top_k, mul) == Trunc(top_k, mul)

\* what the dense and the lexical backend hold for one query, best first
Doc(id, score) == [ id |-> id, score |-> score, payload |-> id ]

CandPairs ==
    { [ dense |-> << >>, lex |-> << >> ],
      [ dense |-> <<Doc(1, 9), Doc(2, 7)>>, lex |-> <<Doc(2, 8), Doc(3, 5)>> ],
      [ dense |-> <<Doc(3, 6), Doc(1, 4), Doc(2, 3), Doc(4, 1)>>, lex |-> <<Doc(4, 2)>> ] }

Requests ==
    [ variant : {"inngest", "api"},
      n : 0..MaxQueries,
      mode : {"dense", "sparse", "hybrid"},
      sparse_process_method : {"sparse_embedding", "inverted_index"},
      top_k : TopKs,
      overfetch_mul : Muls,
      rerank_enabled : BOOLEAN ]

BackendCalls == {"dense_encode", "sparse_encode", "dense_search", "lexical_search"}

\* the backend calls a request makes
Invoked(rq) ==
    IF rq.n = 0 THEN {} ELSE
    (IF rq.mode \in {"dense", "hybrid"} THEN {"dense_encode", "dense_search"} ELSE {})
    \cup (IF rq.mode \in {"sparse", "hybrid"} THEN {"lexical_search"} ELSE {})
    \cup (IF /\ rq.variant = "inngest"
             /\ rq.mode \in {"sparse", "hybrid"}
             /\ rq.sparse_process_method = "sparse_embedding"
          THEN {"sparse_encode"} ELSE {})

\* rerank: the cross-encoder keeps or reverses each candidate list
rerank(n, candidates, flip) ==
    IF Len(candidates) = 0 THEN [ i \in 1..n |-> << >> ]
    ELSE IF \A i \in 1..n : candidates[i] = << >> THEN << >>
    ELSE [ i \in 1..n |->
             [ j \in DOMAIN candidates[i] |->
                 LET c == candidates[i][IF flip THEN Len(candidates[i]) + 1 - j ELSE j]
                 IN Doc(c.id, Len(candidates[i]) - j) ] ]

\* the except branch: a 500 with no results, the exception logged and not re-raised;
\* otherwise the 200 with the results
handler_response(err, results) ==
    IF err # "none"
    THEN [ status |-> 500, results |-> << >>, raised |-> "none" ]
    ELSE [ status |-> 200, results |-> results, raised |-> "none" ]

\* what is asked of the two backends for a request
Asked(rq) ==
    LET hybrid == IF rq.variant = "api"
                  THEN overfetch_amount(rq.top_k, rq.overfetch_mul)
                  ELSE overfetch_amount_qdrant(rq.top_k, rq.overfetch_mul)
    IN [ dense |-> IF rq.mode = "dense" THEN rq.top_k
                   ELSE IF rq.mode = "hybrid" THEN hybrid ELSE 0,
         lex |-> IF rq.mode = "sparse" THEN rq.top_k
                 ELSE IF rq.mode = "hybrid" THEN hybrid ELSE 0 ]

\* the lists of the retrieval step, before the length check and the reranker
Retrieved(rq, cands) ==
    LET asked == Asked(rq)
        dense == [ i \in 1..rq.n |-> Take(cands[i].dense, asked.dense) ]
        lex == [ i \in 1..rq.n |-> Take(cands[i].lex, asked.lex) ]
    IN IF rq.mode = "dense" THEN dense
       ELSE IF rq.mode = "sparse" THEN lex
       ELSE IF rq.variant = "inngest" /\ rq.sparse_process_method = "inverted_index"
       THEN [ i \in 1..rq.n |-> fuse_results(dense[i], lex[i], FUSION_METHOD).fused ]
       ELSE [ i \in 1..rq.n |-> Take(fuse_results(dense[i], lex[i], FUSION_METHOD).fused, rq.top_k) ]

\* retrieve_documents of services/public/retrieve.py (variant inngest) and of
\* services/public/_retrieve.py (variant api). fail names the backend call that
\* raises, if the request makes it.
retrieve_documents(rq, cands, fail, flip) ==
    LET err == IF rq.n = 0 THEN "ValueError"
               ELSE IF fail \in Invoked(rq) THEN fail
               ELSE "none"
        found == Retrieved(rq, cands)
        ranked == IF rq.rerank_enabled THEN rerank(rq.n, found, flip) ELSE found
        results == IF /\ rq.variant = "api"
                      /\ Len(ranked) > 0
                      /\ Len(ranked[1]) > rq.top_k
                   THEN [ i \in DOMAIN ranked |-> Take(ranked[i], rq.top_k) ]
                   ELSE ranked
    IN IF err # "none"
       THEN [ resp |-> handler_response(err, << >>), logged |-> err ]
       ELSE [ resp |-> handler_response("none", results), logged |-> "none" ]

\* ---------------------------------------------------------------- the calls
NoOp == [ op |-> "none" ]

UpsertData(batch, emb, failAt) ==
    /\ nbatch < MaxBatches
    /\ LET out == upsert_data(db, batch, emb, failAt) IN
         /\ db' = out.db
         /\ last' = [ op |-> "upsert_data", batch |-> batch, emb |-> emb, err |-> out.err,
                      again |-> /\ last.op = "upsert_data"
                                /\ last.err = "none"
                                /\ last.batch = batch ]
         /\ broken' = (broken \/ out.err = "DatabaseError")
    /\ prev' = db
    /\ nbatch' = nbatch + 1
    /\ UNCHANGED <<retrVars, concVars, ingestVars>>

\* the caller has taken the outcome of the last call
Return ==
    /\ last.op # "none"
    /\ last' = NoOp
    /\ prev' = db
    /\ UNCHANGED <<db, nbatch, broken>>
    /\ UNCHANGED <<retrVars, concVars, ingestVars>>

Search(op, qs, top_k, method, ord) ==
    /\ last.op = "none"
    /\ db' = ensure_collection_exists(db)
    /\ \E out \in { IF op = "index_search"
                    THEN index_search(db', qs, top_k, method, ord)
                    ELSE sparse_search(db', qs, top_k, method, ord) } :
          last' = [ op |-> op, qs |-> qs, top_k |-> top_k, method |-> method,
                    ord |-> ord, err |-> out.err, lists |-> out.lists ]
    /\ prev' = db
    /\ UNCHANGED <<nbatch, broken>>
    /\ UNCHANGED <<retrVars, concVars, ingestVars>>

\* index_retrieve on what is on disk: nothing, or the stored index of a corpus
IndexRetrieve(built, corpus, qs, top_k, method) ==
    /\ last.op = "none"
    /\ \E out \in { index_retrieve(IF built THEN IndexedDocs(corpus) ELSE NoIndex,
                                   qs, top_k, method) } :
          last' = [ op |-> "index_retrieve", built |-> built, corpus |-> corpus, qs |-> qs,
                    top_k |-> top_k, method |-> method, err |-> out.err, lists |-> out.lists ]
    /\ prev' = db
    /\ UNCHANGED <<db, nbatch, broken>>
    /\ UNCHANGED <<retrVars, concVars, ingestVars>>

FuseRrf(results1, results2, k) ==
    /\ last.op = "none"
    /\ last' = [ op |-> "_fuse_rrf", results1 |-> results1, results2 |-> results2, k |-> k,
                 fused |-> _fuse_rrf(results1, results2, k) ]
    /\ prev' = db
    /\ UNCHANGED <<db, nbatch, broken>>
    /\ UNCHANGED <<retrVars, concVars, ingestVars>>

FuseResults(results1, results2, method) ==
    /\ last.op = "none"
    /\ \E out \in { fuse_results(results1, results2, method) } :
          last' = [ op |-> "fuse_results", results1 |-> results1, results2 |-> results2,
                    method |-> method, err |-> out.err, returned |-> out.returned,
                    fused |-> out.fused ]
    /\ prev' = db
    /\ UNCHANGED <<db, nbatch, broken>>
    /\ UNCHANGED <<retrVars, concVars, ingestVars>>

IngestDocuments(nodes, sparse_process_method, emb, fail) ==
    /\ last.op = "none"
    /\ nbatch < MaxBatches
    /\ \E out \in { ingest_documents(lexical, qdrant, nodes, sparse_process_method, emb, fail) } :
          /\ lexical' = out.lexical
          /\ qdrant' = out.qdrant
          /\ last' = [ op |-> "ingest_documents", nodes |-> nodes,
                       sparse_process_method |-> sparse_process_method,
                       emb |-> emb, fail |-> fail, status |-> out.status,
                       before |-> [ lexical |-> lexical, qdrant |-> qdrant ] ]
    /\ nbatch' = nbatch + 1
    /\ prev' = db
    /\ UNCHANGED <<db, broken>>
    /\ UNCHANGED <<retrVars, concVars>>

NoReq == [ n |-> 0, mode |-> "none" ]

NoEnv == [ fail |-> "none" ]

NoResp == [ status |-> 0 ]

RetrieveDocuments(rq, cands, fail, failQ, flip) ==
    /\ req = NoReq
    /\ \E out \in { retrieve_documents(rq, cands, fail, flip) } :
          /\ resp' = out.resp
          /\ logged' = out.logged
    /\ req' = rq
    /\ env' = [ cands |-> cands, fail |-> fail, failQ |-> failQ, flip |-> flip,
                asked |-> IF rq.n = 0 \/ fail \in Invoked(rq) \cap {"dense_encode", "sparse_encode"}
                          THEN [ dense |-> 0, lex |-> 0 ]
                          ELSE Asked(rq) ]
    /\ UNCHANGED <<storeVars, concVars, ingestVars>>

\* the caller has taken the response
Respond ==
    /\ req # NoReq
    /\ req' = NoReq
    /\ env' = NoEnv
    /\ resp' = NoResp
    /\ logged' = "none"
    /\ UNCHANGED <<storeVars, concVars, ingestVars>>

vars == <<db, nbatch, last, prev, broken, req, env, resp, logged,
         wpc, wbatch, wpre, rpc, rquery, rview, snaps, lexical, qdrant>>

Init ==
    /\ db = EmptyDb
    /\ nbatch = 0
    /\ last = NoOp
    /\ prev = EmptyDb
    /\ broken = FALSE
    /\ req = NoReq
    /\ env = NoEnv
    /\ resp = NoResp
    /\ logged = "none"
    /\ wpc = "idle"
    /\ wbatch = << >>
    /\ wpre = EmptyDb
    /\ rpc = "idle"
    /\ rquery = << >>
    /\ rview = NoView(CorpusStats(EmptyDb))
    /\ snaps = {}
    /\ lexical = NoIndex
    /\ qdrant = NoCollection

\* ingestion: upsert_data calls, one after the other
Next ==
    /\ nbatch < MaxBatches
    /\ \E batch \in Batches, emb \in EmbCases, failAt \in 0..3 :
          /\ (emb # "ok" => failAt = 0)
          /\ UpsertData(batch, emb, failAt)

Spec == Init /\ [][Next]_vars

\* ingestion and lexical search on one collection
QueryBatches == UNION { [1..n -> QueryTexts] : n \in 1..MaxQueries }

Ingest ==
    /\ last.op = "none"
    /\ nbatch < MaxBatches
    /\ \E batch \in Batches, emb \in EmbCases, failAt \in 0..3 :
          /\ (emb # "ok" => failAt = 0)
          /\ UpsertData(batch, emb, failAt)

IndexSearch ==
    /\ last.op = "none"
    /\ \E qs \in QueryBatches, k \in 1..MaxTopK, m \in Methods, ord \in RowOrders :
          Search("index_search", qs, k, m, ord)

SparseSearch ==
    /\ last.op = "none"
    /\ \E qs \in QueryBatches, k \in 1..MaxTopK, m \in Methods, ord \in RowOrders :
          Search("sparse_search", qs, k, m, ord)

NextSearch == Ingest \/ Return \/ IndexSearch \/ SparseSearch

SpecSearch == Init /\ [][NextSearch]_vars

\* lexical search in the three variants: on the file index of a corpus, and on a
\* relational collection into which nothing has been ingested
LocalRetrieve ==
    /\ last.op = "none"
    /\ \E built \in BOOLEAN, corpus \in LocalCorpora, qs \in QueryBatches,
          k \in 1..MaxTopK, m \in Methods :
          /\ (~built => corpus = << >>)
          /\ IndexRetrieve(built, corpus, qs, k, m)

NextLexical == LocalRetrieve \/ IndexSearch \/ SparseSearch \/ Return

SpecLexical == Init /\ [][NextLexical]_vars

\* rank fusion of two ranked lists
Fuse ==
    /\ last.op = "none"
    /\ \E results1 \in FuseLists, results2 \in FuseLists, k \in RrfKs :
          FuseRrf(results1, results2, k)

NextFuse == Fuse \/ Return

SpecFuse == Init /\ [][NextFuse]_vars

\* fusion by either method, or by a method fuse_results does not know
FuseBy ==
    /\ last.op = "none"
    /\ \E results1 \in RankedLists(1), results2 \in RankedLists(2), method \in FusionMethods :
          FuseResults(results1, results2, method)

\* ingestion requests on one collection, in either sparse_process_method
IngestRequest ==
    /\ last.op = "none"
    /\ nbatch < MaxBatches
    /\ \E nodes \in LocalCorpora, m \in {"sparse_embedding", "inverted_index"},
          emb \in QdrantEmbCases, fail \in IngestFailures :
          IngestDocuments(nodes, m, emb, fail)

NextIngest == IngestRequest \/ Return

SpecIngest == Init /\ [][NextIngest]_vars

NextFusion == FuseBy \/ Return

SpecFusion == Init /\ [][NextFusion]_vars

\* ------------------------------------------- the calls, statement by statement
\* Every statement is its own transaction (autocommit); the writer and the reader
\* share the tables and nothing orders their statements. snaps holds the stores
\* a search in flight may take for its snapshot: the store as it stood before, and
\* as it stands after, each upsert_data that overlaps the search's reads.
DefaultOrder == CHOOSE o \in RowOrders : \A i \in 1..(Len(o) - 1) : o[i] < o[i + 1]

\* upsert_data: validation, the rows, ensure_collection_exists
WriterBegins(batch) ==
    /\ wpc = "idle"
    /\ nbatch < MaxBatches
    /\ DOMAIN batch # {}
    /\ wpre' = db
    /\ db' = ensure_collection_exists(db)
    /\ wbatch' = batch
    /\ wpc' = "main"
    /\ nbatch' = nbatch + 1
    /\ snaps' = IF rpc \in {"idle", "done"} THEN snaps
                ELSE snaps \cup { upsert_data(db, batch, "ok", 0).db }
    /\ UNCHANGED <<last, prev, broken, retrVars, ingestVars, rpc, rquery, rview>>

WriterInsertsMain ==
    /\ wpc = "main"
    /\ db' = insert_main_table(db, wbatch, build_inverted_index(wbatch).doc_lens)
    /\ wpc' = "pl"
    /\ UNCHANGED <<nbatch, last, prev, broken, retrVars, ingestVars, wbatch, wpre, rpc, rquery, rview, snaps>>

WriterInsertsPl ==
    /\ wpc = "pl"
    /\ db' = insert_pl_table(db, build_inverted_index(wbatch).postings_list)
    /\ wpc' = "df"
    /\ UNCHANGED <<nbatch, last, prev, broken, retrVars, ingestVars, wbatch, wpre, rpc, rquery, rview, snaps>>

\* the last statement: the upsert is complete
WriterInsertsDf ==
    /\ wpc = "df"
    /\ db' = insert_df_table(db, build_inverted_index(wbatch).postings_list)
    /\ wpc' = "idle"
    /\ wbatch' = << >>
    /\ wpre' = db'
    /\ UNCHANGED <<nbatch, last, prev, broken, retrVars, ingestVars, rpc, rquery, rview, snaps>>

\* index_search of one query: ensure_collection_exists
ReaderBegins(q) ==
    /\ rpc = "idle"
    /\ db' = ensure_collection_exists(db)
    /\ rquery' = q
    /\ rview' = NoView(CorpusStats(EmptyDb))
    /\ rpc' = "stats"
    /\ snaps' = IF wpc = "idle" THEN {db'}
                ELSE { wpre, upsert_data(wpre, wbatch, "ok", 0).db }
    /\ UNCHANGED <<nbatch, last, prev, broken, retrVars, ingestVars, wpc, wbatch, wpre>>

ReaderReadsStats ==
    /\ rpc = "stats"
    /\ rview' = NoView(CorpusStats(db))
    /\ rpc' = IF CorpusStats(db).N = 0 THEN "done" ELSE FirstStep(rquery)
    /\ UNCHANGED <<storeVars, retrVars, ingestVars, wpc, wbatch, wpre, rquery, snaps>>

ReaderReads ==
    /\ rpc \in {"df", "postings", "payloads"}
    /\ \E n \in { ReadStep(db, rpc, rview, rquery, MaxTopK, "okapi-bm25", DefaultOrder) } :
          /\ rview' = n.view
          /\ rpc' = n.pc
    /\ UNCHANGED <<storeVars, retrVars, ingestVars, wpc, wbatch, wpre, rquery, snaps>>

ReaderReturns ==
    /\ rpc = "done"
    /\ rpc' = "idle"
    /\ rquery' = << >>
    /\ rview' = NoView(CorpusStats(EmptyDb))
    /\ snaps' = {}
    /\ UNCHANGED <<storeVars, retrVars, ingestVars, wpc, wbatch, wpre>>

\* what index_search reads of q when nothing else touches the tables st
ViewOf(st, q) ==
    LET stats == CorpusStats(st)
    IN IF stats.N = 0 THEN NoView(stats)
       ELSE ReadAll(st, FirstStep(q), NoView(stats), q, MaxTopK, "okapi-bm25", DefaultOrder)

WriterStarts == wpc = "idle" /\ nbatch < MaxBatches /\ \E batch \in Batches : WriterBegins(batch)

ReaderStarts == rpc = "idle" /\ \E q \in QueryTexts : ReaderBegins(q)

NextConc ==
    \/ WriterStarts
    \/ WriterInsertsMain
    \/ WriterInsertsPl
    \/ WriterInsertsDf
    \/ ReaderStarts
    \/ ReaderReadsStats
    \/ ReaderReads
    \/ ReaderReturns

SpecConc == Init /\ [][NextConc]_vars

\* retrieval requests, one after the other
Serve ==
    /\ req = NoReq
    /\ \E rq \in Requests, cands \in [1..MaxQueries -> CandPairs],
          fail \in {"none"} \cup BackendCalls, failQ \in 1..MaxQueries, flip \in BOOLEAN :
           /\ \A i \in (rq.n + 1)..MaxQueries : cands[i].dense = << >> /\ cands[i].lex = << >>
           /\ fail \in {"none"} \cup Invoked(rq)
           /\ IF fail = "none" \/ rq.n = 0 THEN failQ = 1 ELSE failQ <= rq.n
           /\ (flip => rq.rerank_enabled)
           /\ RetrieveDocuments(rq, SubSeq(cands, 1, rq.n), fail, failQ, flip)

NextRetrieve == Serve \/ Respond

SpecRetrieve == Init /\ [][NextRetrieve]_vars

\* ------------------------------------------------------------------ claims
IndexedTerms(st) == DOMAIN st.df \cup { r[1] : r \in DOMAIN st.pl }

PostingsOf(st, t) == { r \in DOMAIN st.pl : r[1] = t }

Ingested == last.op = "upsert_data" /\ last.err = "none" /\ ~broken

\* C1: after any sequence of ingestion batches that all completed, every term of
\* the index has a doc_freq row whose value is the number of its posting rows.
C1_DocFreqEqualsPostings ==
    ~broken =>
        \A t \in IndexedTerms(db) :
            /\ t \in DOMAIN db.df
            /\ db.df[t] = Cardinality(PostingsOf(db, t))

\* C2: an index_search that runs while an upsert_data is in flight reads the
\* tables as one completed state of the store: what it has read when it returns is
\* what it would have read of the store as it stood before, or as it stands after,
\* an upsert_data that ran while it was reading.
C2_SearchReadsOneSnapshot ==
    rpc = "done" => \E st \in snaps : rview = ViewOf(st, rquery)

\* C3: after a completed ingestion, each document of the batch has a posting
\* (t, DocId) exactly for the terms t of its new text, with the new frequency.
C3_ReingestReplacesPostings ==
    Ingested =>
        \A d \in DOMAIN last.batch : \A t \in IndexedTerms(db) :
            LET tf == Count(tokenize(last.batch[d]), t) IN
            /\ (<<t, d>> \in DOMAIN db.pl) <=> (tf > 0)
            /\ (tf > 0) => db.pl[<<t, d>>] = tf

\* C4: ingesting the batch that was just ingested leaves every table as it was:
\* same rows, postings, doc_freq values and document lengths.
C4_IdempotentReingest ==
    (Ingested /\ last.again) => db = prev

C4_Witness ==
    /\ Ingested /\ last.again
    /\ Cardinality(DOMAIN last.batch) = 2
    /\ DOMAIN db.pl # {}

\* the outcome of the last search had it been given query i alone
Alone(i) ==
    IF last.op = "index_search"
    THEN index_search(db, <<last.qs[i]>>, last.top_k, last.method, last.ord)
    ELSE sparse_search(db, <<last.qs[i]>>, last.top_k, last.method, last.ord)

Searched == last.op \in {"index_search", "sparse_search"}

\* C5: when every query of a batch succeeds on its own, the batch succeeds and
\* returns for query i the list that query i gets when submitted alone.
C5_QueriesIndependent ==
    (Searched /\ \A i \in DOMAIN last.qs : Alone(i).err = "none") =>
        /\ last.err = "none"
        /\ \A i \in DOMAIN last.qs : last.lists[i] = Alone(i).lists[1]

\* C10: a lexical search with a scoring method other than tfidf and okapi-bm25
\* fails with the unsupported-method error, whatever the queries and the index.
C10_UnknownMethodFails ==
    (Searched /\ last.method \notin {"tfidf", "okapi-bm25"}) => last.err = "ValueError"

\* ------------------------------------------------------- claims on retrieval
Answered == req # NoReq

\* C6: a 200 response holds one list per query, the i-th built from what the
\* backends hold for the i-th query.
C6_OneListPerQuery ==
    (Answered /\ resp.status = 200) =>
        /\ Len(resp.results) = req.n
        /\ \A i \in 1..req.n :
              Range(Ids(resp.results[i])) \subseteq
                  Range(Ids(env.cands[i].dense)) \cup Range(Ids(env.cands[i].lex))

HybridAsked == Answered /\ req.mode = "hybrid" /\ env.asked.dense > 0

\* C7 as stated: both backends are asked for max(top_k, round(top_k * multiplier)).
C7_OverfetchRounded ==
    HybridAsked =>
        /\ env.asked.dense = OverfetchRounded(req.top_k, req.overfetch_mul)
        /\ env.asked.lex = OverfetchRounded(req.top_k, req.overfetch_mul)

\* C7 amended: both backends are asked for max(top_k, int(top_k * multiplier)),
\* the product truncated; that is never below top_k, and 10 for top_k = 5 and
\* multiplier 2.0.
C7_OverfetchTruncated ==
    HybridAsked =>
        /\ env.asked.dense = Max(req.top_k, Trunc(req.top_k, req.overfetch_mul))
        /\ env.asked.lex = env.asked.dense
        /\ env.asked.dense >= req.top_k
        /\ (req.top_k = 5 /\ req.overfetch_mul = 20) => env.asked.dense = 10

C7_Witness ==
    /\ HybridAsked
    /\ req.top_k = 3 /\ req.overfetch_mul = 13
    /\ env.asked.dense = 3 /\ env.asked.lex = 3

\* C8: a hybrid response holds, for each query, the first top_k entries of the
\* fusion of the candidates the two backends returned.
C8_FusedThenTruncated ==
    (Answered /\ resp.status = 200 /\ req.mode = "hybrid" /\ ~req.rerank_enabled) =>
        \A i \in 1..req.n :
            /\ Len(resp.results[i]) <= req.top_k
            /\ resp.results[i] =
                  Take(fuse_results(Take(env.cands[i].dense, env.asked.dense),
                                    Take(env.cands[i].lex, env.asked.lex),
                                    FUSION_METHOD).fused, req.top_k)

BackendFailed == Answered /\ env.fail # "none"

\* C9: when a backend call fails the caller gets no result list and gets the
\* originating error.
C9_ErrorReachesCaller ==
    BackendFailed =>
        /\ resp.results = << >>
        /\ resp.raised = env.fail

\* ------------------------------------------------ claims on lexical search
\* C11: a lexical search of a collection that was never built fails with the
\* index-not-found error; it never returns a result for such a collection.
C11_NeverBuiltFails ==
    (Searched /\ ~prev.created) => last.err = "IndexNotFoundError"

\* C12: a search leaves the store as it found it: the same tables with the same
\* rows, whether or not the collection existed.
C12_SearchLeavesStore ==
    Searched => db = prev

LocalSearched == last.op = "index_retrieve" /\ last.built

\* C13: a lexical search over an index without documents returns an empty list
\* for every query of the batch and raises no error, in the relational variants
\* and in the file variant.
C13_EmptyIndexReturnsEmpty ==
    \/ Searched /\ CorpusStats(db).N = 0
    \/ LocalSearched /\ last.corpus = << >>
    => /\ last.err = "none"
       /\ Len(last.lists) = Len(last.qs)
       /\ \A i \in DOMAIN last.lists : last.lists[i] = << >>

C13_Witness ==
    /\ last.op = "index_search"
    /\ CorpusStats(db).N = 0
    /\ last.qs = << <<"cat">>, <<"cat", "cat", "dog">> >>
    /\ last.lists = << << >>, << >> >>

\* C14: every returned list is in descending score order, and documents with
\* equal scores are in ascending DocId order.
C14_TiesByDocId ==
    (Searched /\ last.err = "none") =>
        \A i \in DOMAIN last.lists :
            LET list == last.lists[i] IN
            \A a, b \in DOMAIN list :
                a < b => \/ list[a].score > list[b].score
                         \/ list[a].score = list[b].score /\ list[a].id < list[b].id

\* the documents of the corpus that hold at least one token of the query
Matching(corpus, q) ==
    { corpus[d].uuid : d \in { i \in DOMAIN corpus :
        \E t \in Range(tokenize(q)) : Count(tokenize(corpus[i].text), t) > 0 } }

\* C15: with a supported method index_retrieve raises nothing, whichever query
\* terms the vocabulary lacks, and before truncation the documents of a list are
\* exactly those that hold a term of the query.
C15_ScoredAreMatching ==
    (LocalSearched /\ last.method \in {"tfidf", "okapi-bm25"}) =>
        /\ last.err = "none"
        /\ last.top_k >= Len(last.corpus) =>
              \A i \in DOMAIN last.qs :
                  Range(Ids(last.lists[i])) = Matching(last.corpus, last.qs[i])

C15_Witness ==
    /\ LocalSearched
    /\ last.corpus = << [ uuid |-> 1, text |-> <<"cat">> ], [ uuid |-> 2, text |-> <<"the">> ] >>
    /\ last.qs = << <<"cat", "cat", "dog">> >>
    /\ last.top_k = 2
    /\ Ids(last.lists[1]) = <<1>>

RECURSIVE Ascending(_)
Ascending(S) ==
    IF S = {} THEN << >>
    ELSE LET m == CHOOSE x \in S : \A y \in S : x <= y IN <<m>> \o Ascending(S \ {m})

\* the documents of the collection as one corpus, in DocId order
CorpusOf(st) ==
    LET ids == Ascending(DOMAIN st.main)
    IN [ i \in DOMAIN ids |-> [ uuid |-> ids[i], text |-> st.main[ids[i]].text ] ]

\* the collection holds what one ingestion of its documents stores
SameContent(st) ==
    /\ DOMAIN st.main # {}
    /\ st = upsert_data(EmptyDb, [ d \in DOMAIN st.main |-> st.main[d].text ], "ok", 0).db

Entries(list) == { <<list[i].id, list[i].score>> : i \in DOMAIN list }

\* C16: on the same index content index_search gives every document the score
\* index_retrieve gives it, also for a query that repeats a term.
C16_VariantsScoreAlike ==
    (/\ last.op = "index_search" /\ last.err = "none"
     /\ SameContent(db)
     /\ last.top_k >= Cardinality(DOMAIN db.main)) =>
        LET local == index_retrieve(IndexedDocs(CorpusOf(db)), last.qs, last.top_k, last.method)
        IN /\ local.err = "none"
           /\ \A i \in DOMAIN last.qs : Entries(last.lists[i]) = Entries(local.lists[i])

\* ---------------------------------------------------- claims on rank fusion
Fused == last.op = "_fuse_rrf"

Scenario ==
    /\ Fused
    /\ Ids(last.results1) = <<1, 2>>
    /\ Ids(last.results2) = <<2, 3>>
    /\ last.k = 2

\* C17 as stated: in the scenario id 2 comes first, and id 1 and id 3 follow with
\* equal fused scores.
C17_ScenarioTied ==
    Scenario =>
        /\ last.fused[1].id = 2
        /\ { last.fused[2].id, last.fused[3].id } = {1, 3}
        /\ last.fused[2].score = last.fused[3].score

\* C17 amended: in the scenario id 2 comes first with 1/3 + 1/2 = 5/6, then id 1
\* with 1/2, then id 3 with 1/3; id 1 and id 3 are not tied.
C17_ScenarioRanked ==
    Scenario =>
        /\ Ids(last.fused) = <<2, 1, 3>>
        /\ 6 * last.fused[1].score = 5 * RrfUnit
        /\ 2 * last.fused[2].score = RrfUnit
        /\ 3 * last.fused[3].score = RrfUnit

C17_Witness == Scenario /\ Len(last.fused) = 3

\* rank + 1 of id in results, 0 when results does not hold it
PositionIn(results, id) ==
    IF \E i \in DOMAIN results : results[i].id = id
    THEN CHOOSE i \in DOMAIN results : results[i].id = id
    ELSE 0

\* C18: every document of either list is in the result once, with the score
\* 1/(k + rank) summed over the lists that hold it, which is positive.
C18_RrfFormula ==
    Fused =>
        /\ Range(Ids(last.fused)) = Range(Ids(last.results1)) \cup Range(Ids(last.results2))
        /\ Len(last.fused) = Cardinality(Range(Ids(last.fused)))
        /\ \A i \in DOMAIN last.fused :
              LET p1 == PositionIn(last.results1, last.fused[i].id)
                  p2 == PositionIn(last.results2, last.fused[i].id)
                  d1 == last.k + p1 - 1
                  d2 == last.k + p2 - 1
                  score == last.fused[i].score
              IN /\ score > 0
                 /\ (p1 > 0 /\ p2 = 0) => score * d1 = RrfUnit
                 /\ (p1 = 0 /\ p2 > 0) => score * d2 = RrfUnit
                 /\ (p1 > 0 /\ p2 > 0) => score * d1 * d2 = RrfUnit * (d1 + d2)

C18_Witness ==
    /\ Fused
    /\ Ids(last.results1) = <<1, 2, 3>>
    /\ Ids(last.results2) = <<3, 1>>
    /\ last.k = 3
    /\ Len(last.fused) = 3

\* C19: with an empty first list the result holds the documents of the second
\* list in their order, each with the score 1/(k + rank).
C19_EmptyFirstList ==
    (Fused /\ last.results1 = << >>) =>
        /\ Ids(last.fused) = Ids(last.results2)
        /\ \A i \in DOMAIN last.fused : last.fused[i].score * (last.k + i - 1) = RrfUnit

C19_Witness ==
    /\ Fused
    /\ last.results1 = << >>
    /\ Ids(last.results2) = <<3, 1, 2>>
    /\ Ids(last.fused) = <<3, 1, 2>>

\* where id first occurs when results1 is scanned and then results2
FirstSeen(id) ==
    LET scan == Ids(last.results1) \o Ids(last.results2)
    IN CHOOSE i \in DOMAIN scan : scan[i] = id /\ \A j \in 1..(i - 1) : scan[j] # id

\* C20: the result is in descending fused-score order, and documents with equal
\* fused scores are in the order of their first occurrence in the input.
C20_OrderAndTies ==
    Fused =>
        \A a, b \in DOMAIN last.fused :
            a < b => \/ last.fused[a].score > last.fused[b].score
                     \/ /\ last.fused[a].score = last.fused[b].score
                        /\ FirstSeen(last.fused[a].id) < FirstSeen(last.fused[b].id)

C20_Witness ==
    /\ Fused
    /\ Ids(last.results1) = <<1, 2>>
    /\ Ids(last.results2) = <<3, 2>>
    /\ Ids(last.fused) = <<2, 1, 3>>
    /\ last.fused[2].score = last.fused[3].score
\* ------------------------------------------------------------ DBSF fusion
FusedBy(method) == last.op = "fuse_results" /\ last.method = method

ScoreOf(fused, id) == fused[CHOOSE i \in DOMAIN fused : fused[i].id = id].score

Occurrences(results, id) == Cardinality({ i \in DOMAIN results : results[i].id = id })

EqualScores(results) == \A i, j \in DOMAIN results : results[i].score = results[j].score

\* C21: when the scores of each list are all the same, the lists of one document
\* included, every document gets 0.5 for each of its occurrences.
C21_EqualScoresGiveHalf ==
    (FusedBy("dbsf") /\ EqualScores(last.results1) /\ EqualScores(last.results2)) =>
        \A id \in Range(Ids(last.fused)) :
            2 * ScoreOf(last.fused, id)
                = DbsfUnit * (Occurrences(last.results1, id) + Occurrences(last.results2, id))

\* a comes before b in the fused list
Before(fused, a, b) ==
    \E i, j \in DOMAIN fused : i < j /\ fused[i].id = a /\ fused[j].id = b

\* C22: the two orders of the arguments give every document the same fused score
\* and rank the same way every two documents whose fused scores differ.
C22_DbsfSymmetric ==
    FusedBy("dbsf") =>
        LET swapped == fuse_results(last.results2, last.results1, "dbsf").fused
        IN /\ \A id \in Range(Ids(last.fused)) :
                 ScoreOf(swapped, id) = ScoreOf(last.fused, id)
           /\ \A a, b \in Range(Ids(last.fused)) :
                 ScoreOf(last.fused, a) # ScoreOf(last.fused, b) =>
                     (Before(last.fused, a, b) <=> Before(swapped, a, b))

BothEmpty == last.results1 = << >> /\ last.results2 = << >>

\* C23: two empty lists fused by rrf or by dbsf give the empty list and no error,
\* and no call of fuse_results ends in an empty-input error.
C23_EmptyListsFuseToEmpty ==
    last.op = "fuse_results" =>
        /\ (BothEmpty /\ last.method \in {"rrf", "dbsf"}) =>
               (last.err = "none" /\ last.returned /\ last.fused = << >>)
        /\ last.err # "EmptyInputError"

C23_Witness == FusedBy("dbsf") /\ BothEmpty /\ last.returned /\ last.fused = << >>

\* C24: a method that is neither rrf nor dbsf ends in the unknown-method error and
\* returns no list, whatever the two lists are.
C24_UnknownMethodRaises ==
    (last.op = "fuse_results" /\ last.method \notin {"rrf", "dbsf"}) =>
        (last.err = "ValueError" /\ ~last.returned)

C24_Witness == FusedBy("max") /\ BothEmpty /\ last.err = "ValueError"

\* the document of the first occurrence of id, results1 scanned before results2
FirstOccurrence(id) == (last.results1 \o last.results2)[FirstSeen(id)]

\* C29: rrf and dbsf return every id of the two lists once and no other id, each
\* with the payload of its first occurrence in results1 followed by results2.
C29_EachIdOnceFirstPayload ==
    (FusedBy("rrf") \/ FusedBy("dbsf")) =>
        /\ Range(Ids(last.fused)) = Range(Ids(last.results1)) \cup Range(Ids(last.results2))
        /\ Len(last.fused) = Cardinality(Range(Ids(last.fused)))
        /\ \A i \in DOMAIN last.fused :
              last.fused[i].payload = FirstOccurrence(last.fused[i].id).payload

C29_Witness ==
    /\ FusedBy("dbsf")
    /\ Ids(last.results1) = <<2, 1, 1>>
    /\ Ids(last.results2) = <<1, 2>>
    /\ Len(last.fused) = 2

\* ------------------------------------------------------ ingestion, both stores
\* C25: after batches that all completed, the document count and the length sum
\* that scoring divides are those of the texts now stored, so that avg_doc_len is
\* the mean token count of the current texts.
C25_AvgDocLenOfCurrentTexts ==
    (~broken /\ DOMAIN db.main # {}) =>
        /\ CorpusStats(db).N = Cardinality(DOMAIN db.main)
        /\ CorpusStats(db).sum =
              SumOver([ d \in DOMAIN db.main |-> Len(tokenize(db.main[d].text)) ], DOMAIN db.main)

IngestedDocuments == last.op = "ingest_documents"

\* the tokens of an ingestion's nodes, in node order
TokensOf(nodes) == Flatten([ i \in DOMAIN nodes |-> tokenize(nodes[i].text) ])

FirstAt(tokens, t) ==
    CHOOSE i \in DOMAIN tokens : tokens[i] = t /\ \A j \in 1..(i - 1) : tokens[j] # t

VocabBefore == IF last.before.lexical = NoIndex THEN << >> ELSE last.before.lexical.vocab

C27_FailedIngestionChangesNothing ==
    (IngestedDocuments /\ last.sparse_process_method = "inverted_index" /\ last.status = 500) =>
        (lexical = last.before.lexical /\ qdrant = last.before.qdrant)

Rejected ==
    /\ last.op = "upsert_data"
    /\ (DOMAIN last.batch = {} \/ last.emb \in {"dense_mismatch", "sparse_mismatch"})

\* C28: an empty batch, or one whose dense or sparse embedding count is not the
\* node count, ends in the ValueError with the store as it was: no table made, no
\* row written or changed.
C28_RejectedBeforeAnyWrite ==
    Rejected => (last.err = "ValueError" /\ db = prev)

C28_Witness ==
    /\ Rejected
    /\ last.emb = "sparse_mismatch"
    /\ DOMAIN last.batch # {}
    /\ last.err = "ValueError"
    /\ ~db.created

\* C30: in every state of the store, also after a call that failed part-way,
\* every posting row is of a document of the main table and of a term that has a
\* doc_freq row.
C30_PostingsHaveDocAndDocFreq ==
    \A r \in DOMAIN db.pl : r[2] \in DOMAIN db.main /\ r[1] \in DOMAIN db.df
====
